---- MODULE Spec2Model ----
(***************************************************************************)
(* The observation pipeline of aragorn: the Observer of src/tun.rs (capture *)
(* loop, flow correlation over the pending table syn_packets, TTL sweeper), *)
(* the RESP plugin of src/plugin/redis (parser and RespHandler::process)    *)
(* and the post-processors the results are delivered to.                    *)
(***************************************************************************)
EXTENDS Integers, Sequences, FiniteSets, TLC

(***************************************************************************)
(* Values.  Option<T> is a sequence of length 0 (None) or 1 (Some(x)).      *)
(* A HashMap is a function whose DOMAIN is the set of its keys.  A byte     *)
(* string is a sequence of one-byte tokens: printable bytes are themselves, *)
(* "CR" and "LF" are \r and \n, "xFF" is the byte 0xFF.                     *)
(***************************************************************************)
None == << >>

Some(x) == << x >>

IsSome(o) == o # << >>

Unwrap(o) == o[1]

MapInsert(m, k, v) == [x \in (DOMAIN m) \cup {k} |-> IF x = k THEN v ELSE m[x]]

MapRemove(m, k) == [x \in (DOMAIN m) \ {k} |-> m[x]]

EmptyMap == [x \in {} |-> None]

Digits == <<"0", "1", "2", "3", "4", "5", "6", "7", "8", "9">>

\* u8::is_ascii_digit
is_digit(c) == \E i \in DOMAIN Digits : Digits[i] = c

DigitVal(c) == (CHOOSE i \in DOMAIN Digits : Digits[i] = c) - 1

\* str::parse::<usize> on a non-empty string of ASCII digits
RECURSIVE ParseUsize(_)
ParseUsize(s) ==
    IF s = << >> THEN 0
    ELSE ParseUsize(SubSeq(s, 1, Len(s) - 1)) * 10 + DigitVal(s[Len(s)])

\* str::from_utf8(s).is_ok(): of the bytes of the model only 0xFF is not UTF-8
Utf8Ok(s) == \A i \in DOMAIN s : s[i] # "xFF"

Drop(s, n) == SubSeq(s, n + 1, Len(s))

\* nom take_while(|c| c != b'\r'): the length of the longest prefix without \r
RECURSIVE LenUntilCR(_)
LenUntilCR(s) ==
    IF s = << >> \/ Head(s) = "CR" THEN 0 ELSE 1 + LenUntilCR(Tail(s))

\* nom take_while(is_digit): the length of the longest prefix of digits
RECURSIVE LenDigits(_)
LenDigits(s) ==
    IF s = << >> \/ ~is_digit(Head(s)) THEN 0 ELSE 1 + LenDigits(Tail(s))

\* nom tag("\r\n")
HasCRLF(s) == Len(s) >= 2 /\ s[1] = "CR" /\ s[2] = "LF"

\* nom char(c)
HasChar(s, c) == s # << >> /\ Head(s) = c

RespValue(c, k, v) == [command |-> c, key |-> k, value |-> v]

NoValue == RespValue(None, None, None)

\* The three outcomes of a parser: Ok((rest, value)), Err(nom::Err::Error), a panic
\* of an unwrap() inside the parser.
POk(rest, val) == [st |-> "ok", rest |-> rest, val |-> val]

PErr == [st |-> "err", rest |-> << >>, val |-> NoValue]

PPanic == [st |-> "panic", rest |-> << >>, val |-> NoValue]

\* parse_simple_string and parse_error differ in the leading byte only
ParseLine(input, lead) ==
    IF ~HasChar(input, lead) THEN PErr
    ELSE LET body == Tail(input)
             n == LenUntilCR(body)
             s == SubSeq(body, 1, n)
             rest == Drop(body, n)
         IN  IF ~HasCRLF(rest) THEN PErr
             ELSE IF ~Utf8Ok(s) THEN PPanic
             ELSE POk(Drop(rest, 2), RespValue(Some(s), None, None))

parse_simple_string(input) == ParseLine(input, "+")

parse_error(input) == ParseLine(input, "-")

parse_integer(input) ==
    IF ~HasChar(input, ":") THEN PErr
    ELSE LET body == Tail(input)
             n == LenDigits(body)
             s == SubSeq(body, 1, n)
             rest == Drop(body, n)
         IN  IF ~HasCRLF(rest) THEN PErr
             ELSE POk(Drop(rest, 2), RespValue(None, None, Some(s)))

parse_bulk_string(input) ==
    IF ~HasChar(input, "$") THEN PErr
    ELSE LET body == Tail(input)
             n == LenDigits(body)
             length_str == SubSeq(body, 1, n)
             rest == Drop(body, n)
         IN  IF length_str = << >> THEN PPanic
             ELSE IF ~HasCRLF(rest) THEN PErr
             ELSE LET length == ParseUsize(length_str)
                      rest2 == Drop(rest, 2)
                  IN  IF Len(rest2) < length THEN PErr
                      ELSE LET data == SubSeq(rest2, 1, length)
                               rest3 == Drop(rest2, length)
                           IN  IF ~HasCRLF(rest3) THEN PErr
                               ELSE IF data = << >>
                                    THEN POk(Drop(rest3, 2), NoValue)
                               ELSE IF ~Utf8Ok(data) THEN PPanic
                               ELSE POk(Drop(rest3, 2),
                                        RespValue(None, None, Some(data)))

RECURSIVE parse_resp(_)
RECURSIVE ParseItems(_, _, _)

\* the slots taken one item late: values.get(i + 1)
SlotValueShifted(values, i) ==
    IF i + 1 <= Len(values) THEN values[i + 1].value ELSE None

\* values.get(i).and_then(|v| v.value.clone()), i counted from 1
SlotValue(values, i) ==
    IF i <= Len(values) THEN values[i].value ELSE None

\* the `for _ in 0..length` loop of parse_array: left items still to parse
ParseItems(input, left, values) ==
    IF left = 0
    THEN POk(input, RespValue(SlotValue(values, 1), SlotValue(values, 2),
                              SlotValue(values, 3)))
    ELSE LET r == parse_resp(input)
         IN  IF r.st # "ok" THEN r
             ELSE ParseItems(r.rest, left - 1, Append(values, r.val))

parse_array(input) ==
    IF ~HasChar(input, "*") THEN PErr
    ELSE LET body == Tail(input)
             n == LenDigits(body)
             length_str == SubSeq(body, 1, n)
             rest == Drop(body, n)
         IN  IF length_str = << >> THEN PPanic
             ELSE IF ~HasCRLF(rest) THEN PErr
             ELSE ParseItems(Drop(rest, 2), ParseUsize(length_str), << >>)

\* nom alt: the first parser that does not fail with Err::Error decides
parse_resp(input) ==
    LET r1 == parse_simple_string(input)
        r2 == parse_error(input)
        r3 == parse_integer(input)
        r4 == parse_bulk_string(input)
    IN  IF r1.st # "err" THEN r1
        ELSE IF r2.st # "err" THEN r2
        ELSE IF r3.st # "err" THEN r3
        ELSE IF r4.st # "err" THEN r4
        ELSE parse_array(input)

(***************************************************************************)
(* Bounds and configuration of the model.                                   *)
(***************************************************************************)
\* the clock runs from 0 to MaxTime ticks
MaxTime == 3

\* frames one reader yields before it has nothing more to yield
MaxFrames == 3

\* post-processors registered before the capture starts
NumPP == 2

\* calls of stop()
MaxStops == 2

\* clock ticks in one millisecond (Duration::as_millis truncates)
TicksPerMs == 2

\* ObsConfig.ttl and ObsConfig.cleanup_interval, in ticks
ttl == 1

cleanup_interval == 1

\* RespHandler::new(args.redis_port), the monitored port
port == 6379

\* the other end of the monitored connection
ClientPort == 53120

Ports == {port, ClientPort}

\* sequence and acknowledgement numbers (u32) seen on the wire
Ids == {500, 999}

Loops == {1, 2}

(***************************************************************************)
(* Frames.  A frame is what dissection (pnet) makes of its bytes: `kind`    *)
(* says how far dissection gets, the other fields are the TCP header fields *)
(* and the TCP payload the code reads.                                      *)
(***************************************************************************)
CRLF == <<"CR", "LF">>

\* `$<len>\r\n<s>\r\n` for a string of fewer than ten bytes
Bulk(s) == <<"$", Digits[Len(s) + 1]>> \o CRLF \o s \o CRLF

\* `*<n>\r\n<items>` for fewer than ten items
RECURSIVE Concat(_)
Concat(ss) == IF ss = << >> THEN << >> ELSE Head(ss) \o Concat(Tail(ss))

Array(items) == <<"*", Digits[Len(items) + 1]>> \o CRLF \o Concat(items)

GET == <<"G", "E", "T">>

foo == <<"f", "o", "o">>

bar == <<"b", "a", "r">>

ReqGetFoo == Array(<<Bulk(GET), Bulk(foo)>>)

ReqGetBar == Array(<<Bulk(GET), Bulk(bar)>>)

RespBulkBar == Bulk(bar)

RespError == <<"-", "E", "R", "R">> \o CRLF

NullBulk == <<"$", "-", "1">> \o CRLF

NonUtf8 == <<"+", "xFF">> \o CRLF

Garbage == <<"x">>

Payloads ==
    {<< >>, ReqGetFoo, ReqGetBar, RespBulkBar, RespError, NullBulk, NonUtf8, Garbage}

Frame(kind, src, dst, ack_flag, seq, ack, payload) ==
    [kind |-> kind, src |-> src, dst |-> dst, ack_flag |-> ack_flag,
     seq |-> seq, ack |-> ack, payload |-> payload]

\* the client's own sequence number and the server's acknowledgement number,
\* which the code never reads
ClientSeq == 100

ServerAck == 101

\* towards the monitored port with ACK set: the flow key is the
\* acknowledgement number
RequestFrames ==
    {Frame("tcp", ClientPort, port, TRUE, ClientSeq, k, p) :
        k \in Ids, p \in Payloads}

\* from the monitored port with ACK set: the flow key is the sequence number
ResponseFrames ==
    {Frame("tcp", port, ClientPort, TRUE, q, ServerAck, p) :
        q \in Ids, p \in Payloads}

\* ACK not set, in either direction, with and without a payload
NoAckFrames ==
    {Frame("tcp", sd[1], sd[2], FALSE, q, q, p) :
        sd \in {<<ClientPort, port>>, <<port, ClientPort>>}, q \in Ids,
        p \in {<< >>, ReqGetFoo}}

\* neither port is the monitored one, and both are
OtherFrames ==
    {Frame("tcp", s, s, TRUE, ClientSeq, k, ReqGetFoo) : s \in Ports, k \in Ids}

TcpFrames == RequestFrames \cup ResponseFrames \cup NoAckFrames \cup OtherFrames

\* frames that dissection gives up on: too short for Ethernet, EtherType not IPv4,
\* too short for IPv4, protocol not TCP, too short for TCP
NonTcpKinds == {"short", "not_ipv4", "bad_ipv4", "not_tcp", "bad_tcp"}

NoFrame == Frame("none", ClientPort, ClientPort, FALSE, 500, 500, << >>)

NonTcpFrames == {[NoFrame EXCEPT !.kind = k] : k \in NonTcpKinds}

Frames == TcpFrames \cup NonTcpFrames

(***************************************************************************)
(* State.                                                                   *)
(***************************************************************************)
VARIABLES
    now,             \* Instant::now(), in ticks
    syn_packets,     \* Observer.syn_packets: HashMap<u32, Instant>
    key_map,         \* RespHandler.key_map: HashMap<u32, RespValue>
    post_processors, \* the number of post-processors registered
    received,        \* per post-processor, the results it was given, in order
    stop_version,    \* the watch channel's version: the number of send()s
    stop_value,      \* the watch channel's value
    sweeper,         \* the task start_cleanup spawned
    loops,           \* per caller of capture_packets, its locals
    shadowed,        \* history: the identifiers whose remembered payload has
                     \* made process discard the payload of a later request
    file,            \* the key log file CachedTLSSessionKeys reads, in lines
    hot_cache,       \* CachedTLSSessionKeys.hot_cache, least recently used first
    got,             \* history: the last call of get, its key, what it
                     \* returned, the length of the file at the call, the
                     \* number of lines it read, the client randoms it put
                     \* into the hot cache, the hot cache it met, and the
                     \* client randoms the hot cache has held so far
    prom,            \* PrometheusPostProcessor: its counters and histogram,
                     \* and as history the results it was given
    tap,             \* the TLS tap: the perf buffers, the consumers and the
                     \* channel of stream_for_events, what TlsReader returned
    parsed           \* history: the last array given to parse_resp, by its
                     \* items, and the outcome

cache_vars == << file, hot_cache, got >>

rest_vars == << prom, tap, parsed >>

observer_vars ==
    << now, syn_packets, key_map, post_processors, received, stop_version,
       stop_value, sweeper, loops, shadowed >>

vars ==
    << now, syn_packets, key_map, post_processors, received, stop_version,
       stop_value, sweeper, loops, shadowed, file, hot_cache, got, prom, tap,
       parsed >>

\* PrometheusPostProcessor::new: three metric families without children
NoMetrics ==
    [requests |-> << >>, errors |-> << >>, latency |-> << >>, log |-> << >>]

\* the CPUs that are online
Cpus == {0, 1}

\* the tap before stream_for_events is called: empty perf buffers; made counts
\* the events each CPU has produced
NoTap ==
    [perf |-> [c \in Cpus |-> << >>], made |-> [c \in Cpus |-> 0],
     spawned |-> FALSE, batch |-> [c \in Cpus |-> << >>], chan |-> << >>,
     consumed |-> [c \in Cpus |-> << >>], source |-> << >>, lost |-> {}]

NoParse == [items |-> << >>, out |-> << >>]

NoGet ==
    [key |-> << >>, val |-> None, at |-> 0, read |-> 0, put |-> << >>,
     before |-> << >>, held |-> {}]

NoLast == [class |-> "none", met |-> None, out |-> "none"]

\* the locals of one capture_packets call.  pc: "idle" not called, "select" at
\* tokio::select!, "reading" inside a read_packet() that blocks the thread,
\* "wait_stop" at select! with the reader branch disabled, "process" between
\* get_metrics and the plugin's process, "deliver" in the post-processor loop,
\* "done" returned Ok(()), "failed" returned Err, "panicked" the task panicked.
\* res and idx are the result being delivered and the index of the
\* post-processor it goes to next, seen the version of the stop channel the
\* loop's receiver has seen, nread the number of frames read, cur the payload and
\* the metrics of the frame on its way to process.  `last` remembers of the
\* frame handled last its class, the metrics get_metrics returned for it and how
\* its handling ended; drops counts the frames ReadFrame found not to be TCP;
\* stop_in is the number of the frame the loop was handling or delivering when
\* stop() was last called on it in the middle of a frame, 0 when it never was.
\* rewritten is the identifiers whose pending entry a later request-direction
\* frame has given another timestamp since the entry was made; requests counts
\* the request-direction ACK frames get_metrics has seen.
IdleLoop ==
    [pc |-> "idle", res |-> None, idx |-> 1, seen |-> 0, nread |-> 0,
     cur |-> None, drops |-> 0, stop_in |-> 0, rewritten |-> {},
     requests |-> 0, last |-> NoLast]

\* The state in which capture_packets is entered (main.rs): Observer::new,
\* then NumPP calls of add_post_processor, then start_cleanup (main.rs line
\* 52).  The sweeper's task first sleeps cleanup_interval.  The session-key
\* cache is as CachedTLSSessionKeys::new leaves it, over a file still empty.
Init ==
    /\ now = 0
    /\ syn_packets = EmptyMap
    /\ key_map = EmptyMap
    /\ post_processors = NumPP
    /\ received = [j \in 1..NumPP |-> << >>]
    /\ stop_version = 0
    /\ stop_value = FALSE
    /\ sweeper = [on |-> TRUE, wake |-> cleanup_interval, evicted |-> {},
                  kept |-> {}, after_stop |-> 0]
    /\ loops = [l \in Loops |-> IdleLoop]
    /\ shadowed = {}
    /\ file = << >>
    /\ hot_cache = << >>
    /\ got = NoGet
    /\ prom = NoMetrics
    /\ tap = NoTap
    /\ parsed = NoParse

AllIdle == \A l \in Loops : loops[l].pc = "idle"

SetLoop(l, r) == loops' = [loops EXCEPT ![l] = r]

\* the class of a frame, given the pending table it meets: "undissected" not
\* Ethernet, IPv4 and TCP, "other" neither port is the monitored one, "no_ack"
\* ACK not set, "request" towards the port, "response_hit" from the port with a
\* pending entry under its sequence number, "response_miss" the rest
Class(f, table) ==
    IF f.kind # "tcp" THEN "undissected"
    ELSE IF f.dst # port /\ f.src # port THEN "other"
    ELSE IF ~f.ack_flag THEN "no_ack"
    ELSE IF f.dst = port THEN "request"
    ELSE IF f.seq \in DOMAIN table THEN "response_hit"
    ELSE "response_miss"

(***************************************************************************)
(* The sweeper, the clock, stop().                                          *)
(***************************************************************************)
\* retain with the operands of duration_since swapped
RetainSwapped(table, t) ==
    [x \in {k \in DOMAIN table : table[k] - t < ttl} |-> table[x]]

\* a retain that measures the age an entry will have at the next wake-up
RetainAhead(table, t) ==
    [x \in {k \in DOMAIN table : t + cleanup_interval - table[k] < ttl}
        |-> table[x]]

\* syn_packets.retain(|_, v| now.duration_since(*v) < ttl)
Retain(table, t) ==
    [x \in {k \in DOMAIN table : t - table[k] < ttl} |-> table[x]]

\* one turn of the sweeper's loop: the sleep is over, lock, retain, sleep again;
\* the loop does not look at the stop channel.  History: evicted is the
\* keys the last sweep removed, kept the keys it left while it removed others,
\* after_stop counts, up to 2, the
\* sweeps made since stop() was called.
Sweep ==
    /\ sweeper.on
    /\ now >= sweeper.wake
    /\ syn_packets' = Retain(syn_packets, now)
    /\ sweeper' = [sweeper EXCEPT !.wake = now + cleanup_interval,
                                  !.evicted = DOMAIN syn_packets
                                              \ DOMAIN Retain(syn_packets, now),
                                  !.kept = IF DOMAIN Retain(syn_packets, now)
                                                 = DOMAIN syn_packets
                                           THEN {}
                                           ELSE DOMAIN Retain(syn_packets, now),
                                  !.after_stop = IF ~stop_value THEN 0
                                                 ELSE IF @ < 2 THEN @ + 1 ELSE 2]
    /\ UNCHANGED << now, key_map, post_processors, received, stop_version,
                    stop_value, loops, shadowed >>
    /\ UNCHANGED << cache_vars, rest_vars >>

\* time passes; a sleep that is over wakes its task before time passes again
Tick ==
    /\ now < MaxTime
    /\ sweeper.on => now < sweeper.wake
    /\ now' = now + 1
    /\ UNCHANGED << syn_packets, key_map, post_processors, received, stop_version,
                    stop_value, sweeper, loops, shadowed >>
    /\ UNCHANGED << cache_vars, rest_vars >>

\* a stop() that flips the flag of the channel: send(!*stop_rx.borrow())
StopToggles ==
    /\ stop_version < MaxStops
    /\ stop_version' = stop_version + 1
    /\ stop_value' = ~stop_value
    /\ loops' = [l \in Loops |->
                   IF loops[l].pc \in {"process", "deliver"}
                   THEN [loops[l] EXCEPT !.stop_in = loops[l].nread]
                   ELSE loops[l]]
    /\ UNCHANGED << now, syn_packets, key_map, post_processors, received, sweeper,
                    shadowed >>
    /\ UNCHANGED << cache_vars, rest_vars >>

\* stop(): stop_tx.send(true); the Observer itself holds a receiver, so send
\* never fails
Stop ==
    /\ stop_version < MaxStops
    /\ stop_version' = stop_version + 1
    /\ stop_value' = TRUE
    /\ loops' = [l \in Loops |->
                   IF loops[l].pc \in {"process", "deliver"}
                   THEN [loops[l] EXCEPT !.stop_in = loops[l].nread]
                   ELSE loops[l]]
    /\ UNCHANGED << now, syn_packets, key_map, post_processors, received, sweeper,
                    shadowed >>
    /\ UNCHANGED << cache_vars, rest_vars >>

(***************************************************************************)
(* capture_packets.                                                         *)
(***************************************************************************)
\* the call: stop_rx = self.stop_rx.clone(), which has seen the version the
\* Observer's own receiver has seen, the initial one
CapturePackets(l) ==
    /\ loops[l].pc = "idle"
    /\ SetLoop(l, [loops[l] EXCEPT !.pc = "select", !.seen = 0])
    /\ UNCHANGED << now, syn_packets, key_map, post_processors, received,
                    stop_version, stop_value, sweeper, shadowed >>
    /\ UNCHANGED << cache_vars, rest_vars >>

\* a stop that ends the loop at whatever .await it has reached, inside
\* handle_packet and the post-processor loop as well
StopChangedAnywhere(l) ==
    /\ loops[l].pc \in {"select", "wait_stop", "process", "deliver"}
    /\ stop_version # loops[l].seen
    /\ SetLoop(l, [loops[l] EXCEPT !.seen = stop_version,
                                   !.pc = IF stop_value THEN "done" ELSE @])
    /\ UNCHANGED << now, syn_packets, key_map, post_processors, received,
                    stop_version, stop_value, sweeper, shadowed >>
    /\ UNCHANGED << cache_vars, rest_vars >>

\* select! takes the branch stop_rx.changed()
StopChanged(l) ==
    /\ loops[l].pc \in {"select", "wait_stop"}
    /\ stop_version # loops[l].seen
    /\ SetLoop(l, [loops[l] EXCEPT !.seen = stop_version,
                                   !.pc = IF stop_value THEN "done" ELSE "select"])
    /\ UNCHANGED << now, syn_packets, key_map, post_processors, received,
                    stop_version, stop_value, sweeper, shadowed >>
    /\ UNCHANGED << cache_vars, rest_vars >>

\* select! polls read_packet() of a reader whose read is a blocking call
\* (LivePacketReader: self.rx.next()): the thread is inside the read until a
\* frame or an error comes, and nothing else of the task runs
PollReader(l) ==
    /\ loops[l].pc = "select"
    /\ SetLoop(l, [loops[l] EXCEPT !.pc = "reading"])
    /\ UNCHANGED << now, syn_packets, key_map, post_processors, received,
                    stop_version, stop_value, sweeper, shadowed >>
    /\ UNCHANGED << cache_vars, rest_vars >>

\* read_packet() yields None: the pattern Some(packet) does not match, select!
\* disables the branch and waits for the other one
ReadNone(l) ==
    /\ loops[l].pc \in {"select", "reading"}
    /\ SetLoop(l, [loops[l] EXCEPT !.pc = "wait_stop"])
    /\ UNCHANGED << now, syn_packets, key_map, post_processors, received,
                    stop_version, stop_value, sweeper, shadowed >>
    /\ UNCHANGED << cache_vars, rest_vars >>

Metrics(identifier, latency) == [identifier |-> identifier, latency |-> latency]

\* get_metrics whose response branch reads the entry and leaves it in the table
get_metrics_keeps_entry(tcp_packet, timestamp, table, t) ==
    IF ~tcp_packet.ack_flag THEN [table |-> table, metrics |-> None]
    ELSE IF tcp_packet.dst = port
    THEN [table |-> MapInsert(table, tcp_packet.ack, timestamp),
          metrics |-> Some(Metrics(tcp_packet.ack, None))]
    ELSE IF tcp_packet.src = port /\ tcp_packet.seq \in DOMAIN table
    THEN [table |-> table,
          metrics |-> Some(Metrics(tcp_packet.seq,
                                   Some(t - table[tcp_packet.seq])))]
    ELSE [table |-> table, metrics |-> None]

\* get_metrics whose request branch keys the entry by the sequence number
get_metrics_keyed_by_seq(tcp_packet, timestamp, table, t) ==
    IF ~tcp_packet.ack_flag THEN [table |-> table, metrics |-> None]
    ELSE IF tcp_packet.dst = port
    THEN [table |-> MapInsert(table, tcp_packet.seq, timestamp),
          metrics |-> Some(Metrics(tcp_packet.seq, None))]
    ELSE IF tcp_packet.src = port /\ tcp_packet.seq \in DOMAIN table
    THEN [table |-> MapRemove(table, tcp_packet.seq),
          metrics |-> Some(Metrics(tcp_packet.seq,
                                   Some(t - table[tcp_packet.seq])))]
    ELSE [table |-> table, metrics |-> None]

\* get_metrics that gives a response without a pending entry metrics too
get_metrics_for_miss(tcp_packet, timestamp, table, t) ==
    IF ~tcp_packet.ack_flag THEN [table |-> table, metrics |-> None]
    ELSE IF tcp_packet.dst = port
    THEN [table |-> MapInsert(table, tcp_packet.ack, timestamp),
          metrics |-> Some(Metrics(tcp_packet.ack, None))]
    ELSE IF tcp_packet.src = port /\ tcp_packet.seq \in DOMAIN table
    THEN [table |-> MapRemove(table, tcp_packet.seq),
          metrics |-> Some(Metrics(tcp_packet.seq,
                                   Some(t - table[tcp_packet.seq])))]
    ELSE [table |-> table, metrics |-> Some(Metrics(tcp_packet.seq, None))]

\* get_metrics without the check of the ACK flag
get_metrics_any_flags(tcp_packet, timestamp, table, t) ==
    IF tcp_packet.dst = port
    THEN [table |-> MapInsert(table, tcp_packet.ack, timestamp),
          metrics |-> Some(Metrics(tcp_packet.ack, None))]
    ELSE IF tcp_packet.src = port /\ tcp_packet.seq \in DOMAIN table
    THEN [table |-> MapRemove(table, tcp_packet.seq),
          metrics |-> Some(Metrics(tcp_packet.seq,
                                   Some(t - table[tcp_packet.seq])))]
    ELSE [table |-> table, metrics |-> None]

\* get_metrics whose request branch measures the age of the entry it replaces
get_metrics_request_latency(tcp_packet, timestamp, table, t) ==
    IF ~tcp_packet.ack_flag THEN [table |-> table, metrics |-> None]
    ELSE IF tcp_packet.dst = port
    THEN [table |-> MapInsert(table, tcp_packet.ack, timestamp),
          metrics |-> Some(Metrics(tcp_packet.ack,
                                   IF tcp_packet.ack \in DOMAIN table
                                   THEN Some(t - table[tcp_packet.ack])
                                   ELSE None))]
    ELSE IF tcp_packet.src = port /\ tcp_packet.seq \in DOMAIN table
    THEN [table |-> MapRemove(table, tcp_packet.seq),
          metrics |-> Some(Metrics(tcp_packet.seq,
                                   Some(t - table[tcp_packet.seq])))]
    ELSE [table |-> table, metrics |-> None]

\* get_metrics whose request branch keeps the timestamp of an entry that is
\* there already: entry().or_insert(timestamp)
get_metrics_keeps_first(tcp_packet, timestamp, table, t) ==
    IF ~tcp_packet.ack_flag THEN [table |-> table, metrics |-> None]
    ELSE IF tcp_packet.dst = port
    THEN [table |-> IF tcp_packet.ack \in DOMAIN table THEN table
                    ELSE MapInsert(table, tcp_packet.ack, timestamp),
          metrics |-> Some(Metrics(tcp_packet.ack, None))]
    ELSE IF tcp_packet.src = port /\ tcp_packet.seq \in DOMAIN table
    THEN [table |-> MapRemove(table, tcp_packet.seq),
          metrics |-> Some(Metrics(tcp_packet.seq,
                                   Some(t - table[tcp_packet.seq])))]
    ELSE [table |-> table, metrics |-> None]

\* get_metrics: the pending table and the metrics it leaves, for a TCP packet
\* stamped `timestamp` when the clock shows t (time.elapsed() reads the clock)
get_metrics(tcp_packet, timestamp, table, t) ==
    IF ~tcp_packet.ack_flag THEN [table |-> table, metrics |-> None]
    ELSE IF tcp_packet.dst = port
    THEN [table |-> MapInsert(table, tcp_packet.ack, timestamp),
          metrics |-> Some(Metrics(tcp_packet.ack, None))]
    ELSE IF tcp_packet.src = port /\ tcp_packet.seq \in DOMAIN table
    THEN [table |-> MapRemove(table, tcp_packet.seq),
          metrics |-> Some(Metrics(tcp_packet.seq,
                                   Some(t - table[tcp_packet.seq])))]
    ELSE [table |-> table, metrics |-> None]

\* requests without a key: PING as an array of one bulk string and as an
\* inline simple string
ReqPing == Array(<<Bulk(<<"P", "I", "N", "G">>)>>)

SimplePing == <<"+", "P", "I", "N", "G">> \o CRLF

KeylessPayloads == {ReqPing, SimplePing}

\* parse_resp on each payload of the model, computed once
RespOf == [p \in Payloads \cup KeylessPayloads |-> parse_resp(p)]

\* whether s contains the bytes of pat one after the other (str::contains)
Contains(s, pat) ==
    \E i \in 1..(Len(s) - Len(pat) + 1) : SubSeq(s, i, i + Len(pat) - 1) = pat

\* input.to_string().contains("ERR"): Display writes the three slots with {:?},
\* each Some("...") between quotes, and nothing it writes itself holds "ERR"
DisplayContainsERR(v) ==
    \E slot \in {v.command, v.key, v.value} :
        IsSome(slot) /\ Contains(Unwrap(slot), <<"E", "R", "R">>)

\* Duration::as_millis
as_millis(d) == d \div TicksPerMs

RedisResult(key, is_error, latency) ==
    [key |-> key, is_error |-> is_error, latency |-> latency]

\* process with insert in place of entry().or_insert_with: the last payload wins
process_insert(buf, metrics, store) ==
    IF metrics = None THEN [store |-> store, out |-> "none", result |-> None]
    ELSE LET m == Unwrap(metrics)
             resp == RespOf[buf]
             input == resp.val
             stored == MapInsert(store, m.identifier, input)
         IN  IF resp.st = "panic"
             THEN [store |-> store, out |-> "panic", result |-> None]
             ELSE IF resp.st = "err"
             THEN [store |-> store, out |-> "err", result |-> None]
             ELSE IF m.latency = None
             THEN [store |-> stored, out |-> "none", result |-> None]
             ELSE IF stored[m.identifier].key = None
             THEN [store |-> stored, out |-> "panic", result |-> None]
             ELSE [store |-> MapRemove(stored, m.identifier), out |-> "result",
                   result |-> Some(RedisResult(Unwrap(stored[m.identifier].key),
                                               DisplayContainsERR(input),
                                               as_millis(Unwrap(m.latency))))]

\* process that does not wait for a latency: a request whose payload has a key
\* gives a result at once, with latency 0
process_eager(buf, metrics, store) ==
    IF metrics = None THEN [store |-> store, out |-> "none", result |-> None]
    ELSE LET m == Unwrap(metrics)
             resp == RespOf[buf]
             input == resp.val
             stored == IF m.identifier \in DOMAIN store THEN store
                       ELSE MapInsert(store, m.identifier, input)
         IN  IF resp.st = "panic"
             THEN [store |-> store, out |-> "panic", result |-> None]
             ELSE IF resp.st = "err"
             THEN [store |-> store, out |-> "err", result |-> None]
             ELSE IF stored[m.identifier].key = None
             THEN [store |-> stored, out |-> "panic", result |-> None]
             ELSE [store |-> MapRemove(stored, m.identifier), out |-> "result",
                   result |-> Some(RedisResult(Unwrap(stored[m.identifier].key),
                                               DisplayContainsERR(input),
                                               IF m.latency = None THEN 0
                                               ELSE as_millis(Unwrap(m.latency))))]

\* RespHandler::process on the memory `store`: the memory it leaves and how it
\* ends: "none" Ok(None), "err" Err(Failed to parse packet), "result" Ok(Some),
\* "panic" an unwrap() that panics (in the parser, or of the stored key)
process(buf, metrics, store) ==
    IF metrics = None THEN [store |-> store, out |-> "none", result |-> None]
    ELSE LET m == Unwrap(metrics)
             resp == RespOf[buf]
             input == resp.val
             stored == IF m.identifier \in DOMAIN store THEN store
                       ELSE MapInsert(store, m.identifier, input)
         IN  IF resp.st = "panic"
             THEN [store |-> store, out |-> "panic", result |-> None]
             ELSE IF resp.st = "err"
             THEN [store |-> store, out |-> "err", result |-> None]
             ELSE IF m.latency = None
             THEN [store |-> stored, out |-> "none", result |-> None]
             ELSE IF stored[m.identifier].key = None
             THEN [store |-> stored, out |-> "panic", result |-> None]
             ELSE [store |-> MapRemove(stored, m.identifier), out |-> "result",
                   result |-> Some(RedisResult(Unwrap(stored[m.identifier].key),
                                               DisplayContainsERR(input),
                                               as_millis(Unwrap(m.latency))))]

\* impl From<RedisResult> for ProcessedResult
into(res) == [label |-> res.key, is_error |-> res.is_error, latency |-> res.latency]

Handled(table, store, met, out, result) ==
    [table |-> table, store |-> store, met |-> met, out |-> out, result |-> result]

\* handle_tcp_packet without the port filter
handle_tcp_packet_unfiltered(f, timestamp, table, store) ==
    LET g == get_metrics(f, timestamp, table, timestamp)
    IN  IF f.payload = << >>
        THEN Handled(g.table, store, g.metrics, "empty", None)
        ELSE LET p == process(f.payload, g.metrics, store)
             IN  Handled(g.table, p.store, g.metrics, p.out, p.result)

\* handle_tcp_packet on a frame that parses as TCP, stamped `timestamp`: the
\* port filter, get_metrics, the empty-payload check, process
handle_tcp_packet(f, timestamp, table, store) ==
    IF f.dst # port /\ f.src # port
    THEN Handled(table, store, None, "dropped", None)
    ELSE LET g == get_metrics(f, timestamp, table, timestamp)
         IN  IF f.payload = << >>
             THEN Handled(g.table, store, g.metrics, "empty", None)
             ELSE LET p == process(f.payload, g.metrics, store)
                  IN  Handled(g.table, p.store, g.metrics, p.out, p.result)

\* handle_packet that fails on a frame too short for an Ethernet header instead
\* of returning Ok(None)
handle_packet_short_fatal(f, timestamp, table, store) ==
    IF f.kind = "short"
    THEN Handled(table, store, None, "panic", None)
    ELSE IF f.kind \in {"not_ipv4", "bad_ipv4", "not_tcp"}
    THEN Handled(table, store, None, "dropped", None)
    ELSE IF f.kind = "bad_tcp"
    THEN Handled(table, store, None, "tcp_err", None)
    ELSE handle_tcp_packet(f, timestamp, table, store)

\* handle_packet and handle_ipv4_packet: Ok(None) for what is not Ethernet, IPv4
\* and TCP, the error of handle_tcp_packet when the TCP header does not parse
handle_packet(f, timestamp, table, store) ==
    IF f.kind \in {"short", "not_ipv4", "bad_ipv4", "not_tcp"}
    THEN Handled(table, store, None, "dropped", None)
    ELSE IF f.kind = "bad_tcp"
    THEN Handled(table, store, None, "tcp_err", None)
    ELSE handle_tcp_packet(f, timestamp, table, store)

\* History of syn_packets.insert, from the pending table a frame meets: a
\* request-direction ACK frame makes the entry of its acknowledgement number
\* when there is none, and gives it another timestamp when there is one
Rewritten(rw, f, table, timestamp) ==
    IF Class(f, table) # "request" THEN rw
    ELSE IF f.ack \notin DOMAIN table THEN rw \ {f.ack}
    ELSE IF table[f.ack] # timestamp THEN rw \cup {f.ack}
    ELSE rw

\* History of or_insert_with, from the memory before (store) and after (store2):
\* a payload that parsed starts a memory entry when the memory does not hold the
\* identifier, and is discarded when it does
Shadowed(sh, met, out, store, store2) ==
    IF met = None THEN sh
    ELSE LET m == Unwrap(met)
         IN  IF m.identifier \notin DOMAIN store
             THEN IF m.identifier \in DOMAIN store2 \/ out = "result"
                  THEN sh \ {m.identifier} ELSE sh
             ELSE IF m.latency = None /\ out = "none"
             THEN sh \cup {m.identifier}
             ELSE sh

\* select! takes the branch Some(packet) = reader.read_packet(): the frame is
\* handled; a result goes to the post-processor loop, a panic ends the task,
\* anything else (Ok(None), or an error, which is logged) is back at select!
HandleFrame(l, f) ==
    /\ loops[l].pc = "select"
    /\ loops[l].nread < MaxFrames
    /\ \E h \in {handle_packet(f, now, syn_packets, key_map)} :
          \E r \in {[loops[l] EXCEPT !.nread = @ + 1,
                                     !.rewritten = Rewritten(@, f, syn_packets, now),
                                     !.requests =
                                         IF Class(f, syn_packets) = "request"
                                         THEN @ + 1 ELSE @,
                                     !.last = [class |-> Class(f, syn_packets),
                                               met |-> h.met,
                                               out |-> h.out]]} :
              /\ syn_packets' = h.table
              /\ key_map' = h.store
              /\ SetLoop(l, IF h.out = "panic"
                            THEN [r EXCEPT !.pc = "panicked"]
                            ELSE IF h.out = "result" /\ post_processors > 0
                            THEN [r EXCEPT !.pc = "deliver",
                                           !.res = Some(into(Unwrap(h.result))),
                                           !.idx = 1]
                            ELSE r)
              /\ shadowed' = Shadowed(shadowed, h.met, h.out, key_map, h.store)
    /\ UNCHANGED << now, post_processors, received, stop_version, stop_value,
                    sweeper >>
    /\ UNCHANGED << cache_vars, rest_vars >>

\* the post-processor loop with the error of post_process logged instead of
\* returned: the loop goes on with the next post-processor
DeliverLogsError(l, ok) ==
    /\ loops[l].pc = "deliver"
    /\ LET r == loops[l]
       IN  /\ received' = IF ok THEN [received EXCEPT
                                         ![r.idx] = Append(@, Unwrap(r.res))]
                           ELSE received
           /\ SetLoop(l, IF r.idx = post_processors
                         THEN [r EXCEPT !.pc = "select", !.res = None, !.idx = 1]
                         ELSE [r EXCEPT !.idx = @ + 1])
    /\ UNCHANGED << now, syn_packets, key_map, post_processors, stop_version,
                    stop_value, sweeper, shadowed >>
    /\ UNCHANGED << cache_vars, rest_vars >>

\* the post-processor loop over the vector from its last element to its first
DeliverReversed(l, ok) ==
    /\ loops[l].pc = "deliver"
    /\ LET r == loops[l]
       IN  IF ok
           THEN /\ received' = [received EXCEPT ![post_processors + 1 - r.idx] =
                                                    Append(@, Unwrap(r.res))]
                /\ SetLoop(l, IF r.idx = post_processors
                              THEN [r EXCEPT !.pc = "select", !.res = None,
                                             !.idx = 1]
                              ELSE [r EXCEPT !.idx = @ + 1])
           ELSE /\ received' = received
                /\ SetLoop(l, [r EXCEPT !.pc = "failed"])
    /\ UNCHANGED << now, syn_packets, key_map, post_processors, stop_version,
                    stop_value, sweeper, shadowed >>
    /\ UNCHANGED << cache_vars, rest_vars >>

\* a delivery that hands the result to the first post-processor and lets the
\* loop go back to select! while the others have not had it
DeliverFirstOnly(l, ok) ==
    /\ loops[l].pc = "deliver"
    /\ LET r == loops[l]
       IN  IF ok
           THEN /\ received' = [received EXCEPT ![r.idx] = Append(@, Unwrap(r.res))]
                /\ SetLoop(l, [r EXCEPT !.pc = "select", !.res = None, !.idx = 1])
           ELSE /\ received' = received
                /\ SetLoop(l, [r EXCEPT !.pc = "failed"])
    /\ UNCHANGED << now, syn_packets, key_map, post_processors, stop_version,
                    stop_value, sweeper, shadowed >>
    /\ UNCHANGED << cache_vars, rest_vars >>

\* one turn of `for post_processor in &self.post_processors`: post_process
\* returns Ok(()) or an error, which `?` returns from capture_packets
Deliver(l, ok) ==
    /\ loops[l].pc = "deliver"
    /\ LET r == loops[l]
       IN  IF ok
           THEN /\ received' = [received EXCEPT ![r.idx] = Append(@, Unwrap(r.res))]
                /\ SetLoop(l, IF r.idx = post_processors
                              THEN [r EXCEPT !.pc = "select", !.res = None,
                                             !.idx = 1]
                              ELSE [r EXCEPT !.idx = @ + 1])
           ELSE /\ received' = received
                /\ SetLoop(l, [r EXCEPT !.pc = "failed"])
    /\ UNCHANGED << now, syn_packets, key_map, post_processors, stop_version,
                    stop_value, sweeper, shadowed >>
    /\ UNCHANGED << cache_vars, rest_vars >>

\* One capture loop with its sweeper: the frames, the clock and the delivery of
\* results to post-processors that accept them.
Next ==
    \/ Sweep
    \/ Tick
    \/ CapturePackets(1)
    \/ \E f \in Frames : HandleFrame(1, f)
    \/ Deliver(1, TRUE)

Spec == Init /\ [][Next]_vars

(***************************************************************************)
(* The capture loop step by step.  handle_tcp_packet takes its locks one    *)
(* after the other: the handler's for port(), syn_packets' inside           *)
(* get_metrics, the handler's again for process.  ReadFrame is the frame up *)
(* to the return of get_metrics, ProcessFrame the call of process; what     *)
(* other tasks do comes between the two.                                    *)
(***************************************************************************)
\* the outcomes of handle_packet that are reached without calling process
BeforeProcess == {"dropped", "tcp_err", "empty"}

\* select! takes the branch Some(packet) = reader.read_packet(), or the read
\* that blocked returns a frame: the frame is dissected, the port filter and
\* get_metrics run; a frame that gets as far as process goes on in ProcessFrame
ReadFrame(l, f) ==
    /\ loops[l].pc \in {"select", "reading"}
    /\ loops[l].nread < MaxFrames
    /\ \E h \in {handle_packet(f, now, syn_packets, key_map)} :
          /\ syn_packets' = h.table
          /\ SetLoop(l, [loops[l] EXCEPT
                 !.nread = @ + 1,
                 !.rewritten = Rewritten(@, f, syn_packets, now),
                 !.requests = IF Class(f, syn_packets) = "request" THEN @ + 1
                              ELSE @,
                 !.drops = IF f.kind # "tcp" THEN @ + 1 ELSE @,
                 !.pc = IF h.out \in BeforeProcess THEN "select" ELSE "process",
                 !.cur = IF h.out \in BeforeProcess THEN None
                         ELSE Some([payload |-> f.payload, metrics |-> h.met]),
                 !.last = [class |-> Class(f, syn_packets), met |-> h.met,
                           out |-> IF h.out \in BeforeProcess THEN h.out
                                   ELSE "process"]])
    /\ UNCHANGED << now, key_map, post_processors, received, stop_version,
                    stop_value, sweeper, shadowed >>
    /\ UNCHANGED << cache_vars, rest_vars >>

\* handler.lock().await.process(payload, metrics).await and what capture_packets
\* does with its return
ProcessFrame(l) ==
    /\ loops[l].pc = "process"
    /\ \E c \in {Unwrap(loops[l].cur)} :
       \E p \in {process(c.payload, c.metrics, key_map)} :
       \E r \in {[loops[l] EXCEPT !.cur = None, !.last.out = p.out]} :
          /\ key_map' = p.store
          /\ SetLoop(l, IF p.out = "panic" THEN [r EXCEPT !.pc = "panicked"]
                        ELSE IF p.out = "result" /\ post_processors > 0
                        THEN [r EXCEPT !.pc = "deliver",
                                       !.res = Some(into(Unwrap(p.result))),
                                       !.idx = 1]
                        ELSE [r EXCEPT !.pc = "select"])
          /\ shadowed' = Shadowed(shadowed, c.metrics, p.out, key_map, p.store)
    /\ UNCHANGED << now, syn_packets, post_processors, received, stop_version,
                    stop_value, sweeper >>
    /\ UNCHANGED << cache_vars, rest_vars >>

\* the frames of the runs with stop(): one request and its response, a request
\* that does not parse, and the frames dissection gives up on
StopFrames ==
    {f \in RequestFrames : f.ack = 500 /\ f.payload \in {ReqGetFoo, Garbage}}
        \cup {f \in ResponseFrames : f.seq = 500 /\ f.payload = RespBulkBar}
        \cup NonTcpFrames

\* One capture loop with its sweeper and a caller of stop(): the reader yields
\* frames, yields None or blocks, post-processors accept a result or fail.
StopNext ==
    \/ Sweep
    \/ Tick
    \/ Stop
    \/ CapturePackets(1)
    \/ StopChanged(1)
    \/ PollReader(1)
    \/ ReadNone(1)
    \/ \E f \in StopFrames : ReadFrame(1, f)
    \/ ProcessFrame(1)
    \/ Deliver(1, TRUE)
    \/ Deliver(1, FALSE)

StopSpec == Init /\ [][StopNext]_vars

\* StopSpec with the scheduling of the runtime: a task whose wake-up is pending
\* is polled, and a call of process or post_process returns.  Nothing makes the
\* link deliver a frame or the caller call stop().
FairStopSpec ==
    /\ StopSpec
    /\ WF_vars(StopChanged(1))
    /\ WF_vars(ProcessFrame(1))
    /\ WF_vars(Deliver(1, TRUE) \/ Deliver(1, FALSE))

\* the frames of the runs with two loops: a request and its response
TwoFrames ==
    {f \in RequestFrames : f.ack = 500 /\ f.payload = ReqGetFoo}
        \cup {f \in ResponseFrames : f.seq = 500 /\ f.payload = RespBulkBar}

\* Two capture_packets calls on one Observer and one handler, each with a
\* reader of its own; the tasks interleave at the .await of every lock.
TwoNext ==
    \/ \E l \in Loops : CapturePackets(l)
    \/ \E l \in Loops : \E f \in TwoFrames : ReadFrame(l, f)
    \/ \E l \in Loops : ProcessFrame(l)
    \/ \E l \in Loops : Deliver(l, TRUE)

TwoSpec == Init /\ [][TwoNext]_vars

(***************************************************************************)
(* Properties.  A property of what handling one frame does is a property of *)
(* the steps HandleFrame(1, f), stated for every frame f of the claim's     *)
(* kind; `last` of the state after the step holds the metrics get_metrics   *)
(* returned and how the handling ended, pc = "deliver" that a result goes   *)
(* to the post-processors.                                                  *)
(***************************************************************************)
Emitted(l) == loops[l].pc = "deliver"

\* the step handles frame f: HandleFrame(1, f), which sets last.class to the
\* class of f; stated first, the class spares evaluating the handler for the
\* frames of the other classes
Handles(f) ==
    /\ loops'[1].nread = loops[1].nread + 1
    /\ loops'[1].last.class = Class(f, syn_packets)
    /\ HandleFrame(1, f)

\* process returns a result for payload buf and identifier id: buf is not empty
\* and parses, and the value remembered under id, or else the parsed one, has a
\* key
HasKey(buf, id) ==
    /\ buf # << >>
    /\ RespOf[buf].st = "ok"
    /\ IF id \in DOMAIN key_map THEN key_map[id].key # None
       ELSE RespOf[buf].val.key # None

\* C1 as stated: handling a response-direction ACK frame whose sequence number
\* has a pending entry removes that entry and emits a result with latency > 0.
C1_ResultForEveryHit ==
    [][\A f \in ResponseFrames :
          (f.seq \in DOMAIN syn_packets /\ Handles(f)) =>
              /\ syn_packets' = MapRemove(syn_packets, f.seq)
              /\ Emitted(1)'
              /\ Unwrap(loops'[1].res).latency > 0]_vars

\* C1 as amended: handling a response-direction ACK frame whose sequence number
\* has a pending entry removes exactly that entry, and the metrics carry the
\* time elapsed since the entry's timestamp; a result is emitted if and only if
\* the payload is not empty and parses and the remembered value has a key, and
\* its latency is the elapsed time in whole milliseconds, which may be 0; the
\* task panics if and only if the parser panics on the payload or the payload
\* parses and the remembered value has no key.
C1_HitRemovesEntry ==
    [][\A f \in ResponseFrames :
          (f.seq \in DOMAIN syn_packets /\ Handles(f)) =>
              LET elapsed == now - syn_packets[f.seq]
              IN  /\ syn_packets' = MapRemove(syn_packets, f.seq)
                  /\ loops'[1].last.met = Some(Metrics(f.seq, Some(elapsed)))
                  /\ Emitted(1)' <=> HasKey(f.payload, f.seq)
                  /\ loops'[1].pc = "panicked" <=>
                        /\ f.payload # << >>
                        /\ RespOf[f.payload].st # "err"
                        /\ ~HasKey(f.payload, f.seq)
                  /\ Emitted(1)' =>
                        /\ loops'[1].last.out = "result"
                        /\ Unwrap(loops'[1].res).latency = elapsed \div TicksPerMs
                        /\ Unwrap(loops'[1].res).latency >= 0]_vars

\* a response has matched a pending entry, the entry is gone and the result
\* being delivered has latency 0
C1_Witness ==
    /\ Emitted(1)
    /\ loops[1].last.class = "response_hit"
    /\ Unwrap(loops[1].last.met).identifier \notin DOMAIN syn_packets
    /\ Unwrap(loops[1].res).latency = 0

\* C2: handling a request-direction ACK frame leaves in the pending table an
\* entry keyed by the frame's acknowledgement number whose time is not older
\* than the frame's timestamp, leaves the other entries as they were, and the
\* metrics returned are {identifier = ack number, latency = None}.
C2_RequestInsertsEntry ==
    [][\A f \in RequestFrames :
          Handles(f) =>
              /\ f.ack \in DOMAIN syn_packets'
              /\ syn_packets'[f.ack] >= now
              /\ \A k \in DOMAIN syn_packets' \ {f.ack} :
                    k \in DOMAIN syn_packets /\ syn_packets'[k] = syn_packets[k]
              /\ loops'[1].last.met = Some(Metrics(f.ack, None))]_vars

\* a request has just been handled and its entry is in the pending table
C2_Witness ==
    /\ loops[1].last.class = "request"
    /\ loops[1].last.met # None
    /\ Unwrap(loops[1].last.met).identifier \in DOMAIN syn_packets
    /\ syn_packets[Unwrap(loops[1].last.met).identifier] = now

\* C3: with the sweeper started, no pending entry inserted at time t is in the
\* table at a time after t + ttl + cleanup_interval (the sweeper's sleep ends
\* on time: Tick waits for a sweep that is due), and a sweep emits no result.
C3_EntryGoneAfterTtl ==
    /\ [](sweeper.on =>
            \A k \in DOMAIN syn_packets :
                now <= syn_packets[k] + ttl + cleanup_interval)
    /\ [][Sweep => (received' = received /\ loops' = loops)]_vars

\* the sweeper has evicted an entry no response matched: the table is empty and
\* no post-processor has received a result
C3_Witness ==
    /\ sweeper.on
    /\ sweeper.evicted # {}
    /\ syn_packets = EmptyMap
    /\ \A j \in DOMAIN received : received[j] = << >>
    /\ ~Emitted(1)

\* the TCP frames neither of whose ports is the monitored port
NeitherPortFrames == {f \in TcpFrames : f.src # port /\ f.dst # port}

\* C4: handling a frame neither of whose ports is the monitored port leaves the
\* pending table and the plugin's memory unchanged, does not call process and
\* reaches no post-processor.
C4_OtherPortsNoEffect ==
    [][\A f \in NeitherPortFrames :
          Handles(f) =>
              /\ syn_packets' = syn_packets
              /\ key_map' = key_map
              /\ received' = received
              /\ loops'[1].last.met = None
              /\ loops'[1].last.out = "dropped"
              /\ ~Emitted(1)']_vars

\* a TCP frame between other ports has been dropped while a request was pending
C4_Witness ==
    /\ loops[1].last.class = "other"
    /\ loops[1].last.out = "dropped"
    /\ loops[1].pc = "select"
    /\ syn_packets # EmptyMap
    /\ key_map # EmptyMap

\* C5: a request-direction frame whose identifier the plugin's memory already
\* holds leaves the memory as it is, so the memory keeps the payload of the
\* first request; and the result emitted for a response that matches carries
\* the key of the remembered payload.
C5_FirstRequestWins ==
    [][/\ \A f \in RequestFrames :
              (f.ack \in DOMAIN key_map /\ Handles(f)) => key_map' = key_map
       /\ \A f \in ResponseFrames :
              (/\ f.seq \in DOMAIN syn_packets
               /\ f.seq \in DOMAIN key_map
               /\ Emitted(1)'
               /\ Handles(f)) =>
                  /\ Unwrap(loops'[1].res).label = Unwrap(key_map[f.seq].key)
                  /\ f.seq \notin DOMAIN key_map']_vars

\* the result being delivered is for an identifier on which a later request's
\* payload was discarded in favour of the remembered one
C5_Witness ==
    /\ Emitted(1)
    /\ loops[1].last.class = "response_hit"
    /\ Unwrap(loops[1].last.met).identifier \in shadowed
    /\ Unwrap(loops[1].res).label = foo

\* C6: handling a response-direction ACK frame whose sequence number has no
\* pending entry leaves the pending table and the plugin's memory unchanged,
\* yields no metrics and no result, and reaches no post-processor.
C6_MissNoEffect ==
    [][\A f \in ResponseFrames :
          (f.seq \notin DOMAIN syn_packets /\ Handles(f)) =>
              /\ syn_packets' = syn_packets
              /\ key_map' = key_map
              /\ received' = received
              /\ loops'[1].last.met = None
              /\ loops'[1].last.out \in {"empty", "none"}
              /\ ~Emitted(1)']_vars

\* a response without a pending entry went through process while another
\* request was pending and remembered
C6_Witness ==
    /\ loops[1].last.class = "response_miss"
    /\ loops[1].last.out = "none"
    /\ loops[1].last.met = None
    /\ syn_packets # EmptyMap
    /\ key_map # EmptyMap

\* C7: handling a frame to or from the monitored port whose ACK flag is not set
\* yields no metrics, leaves the pending table and the plugin's memory
\* unchanged and emits no result, whatever its direction and payload.
C7_NoAckNoMetrics ==
    [][\A f \in NoAckFrames :
          Handles(f) =>
              /\ loops'[1].last.met = None
              /\ syn_packets' = syn_packets
              /\ key_map' = key_map
              /\ received' = received
              /\ ~Emitted(1)']_vars

\* a frame without ACK and with a payload has been handled while the pending
\* table held an entry
C7_Witness ==
    /\ loops[1].last.class = "no_ack"
    /\ loops[1].last.out = "none"
    /\ loops[1].pc = "select"
    /\ syn_packets # EmptyMap

\* C8: in every reachable state, the metrics get_metrics returns for a frame
\* carry a latency if and only if the frame comes from the monitored port, does
\* not go to it, has ACK set and its sequence number has a pending entry; the
\* metrics for a frame to the monitored port carry none.
C8_LatencyIffResponseHit ==
    \A f \in TcpFrames :
        LET m == get_metrics(f, now, syn_packets, now).metrics
        IN  /\ (m # None /\ Unwrap(m).latency # None) <=>
                   /\ f.ack_flag
                   /\ f.src = port
                   /\ f.dst # port
                   /\ f.seq \in DOMAIN syn_packets
            /\ (m # None /\ f.dst = port) => Unwrap(m).latency = None

\* metrics with a latency have been returned for a response while the request
\* on the other identifier, whose metrics had none, is still pending
C8_Witness ==
    /\ loops[1].last.class = "response_hit"
    /\ loops[1].last.met # None
    /\ Unwrap(loops[1].last.met).latency # None
    /\ Unwrap(Unwrap(loops[1].last.met).latency) > 0
    /\ syn_packets # EmptyMap

\* C9 as stated: when a response matches a pending entry, its payload parses
\* and the plugin's memory holds nothing under the identifier, process returns
\* an error, no result is emitted, the memory is unchanged and the capture loop
\* is back at select!.
C9_OrphanResponseNotFatal ==
    [][\A f \in ResponseFrames :
          (/\ f.seq \in DOMAIN syn_packets
           /\ f.seq \notin DOMAIN key_map
           /\ f.payload # << >>
           /\ RespOf[f.payload].st = "ok"
           /\ Handles(f)) =>
              /\ loops'[1].last.out = "err"
              /\ ~Emitted(1)'
              /\ key_map' = key_map
              /\ loops'[1].pc = "select"]_vars

\* C10 as stated: when process is called with metrics and a payload that is
\* not RESP of the implemented subset, it returns an error, the plugin's memory
\* is unchanged, no result is emitted and the capture loop is back at select!.
C10_BadPayloadIsParseError ==
    [][\A f \in RequestFrames \cup ResponseFrames :
          (/\ f.payload # << >>
           /\ RespOf[f.payload].st # "ok"
           /\ (f.dst = port \/ f.seq \in DOMAIN syn_packets)
           /\ Handles(f)) =>
              /\ loops'[1].last.out = "err"
              /\ key_map' = key_map
              /\ ~Emitted(1)'
              /\ loops'[1].pc = "select"]_vars

(***************************************************************************)
(* Properties of the capture loop with stop(), source errors and failing    *)
(* post-processors, over StopSpec.                                          *)
(***************************************************************************)
\* the step of loop 1 is ReadFrame(1, f)
Reads(f) ==
    /\ loops'[1].nread = loops[1].nread + 1
    /\ loops'[1].last.class = Class(f, syn_packets)
    /\ ReadFrame(1, f)

\* C11: a frame that fails dissection (not Ethernet, not IPv4, not TCP, or a TCP
\* header that does not parse) changes neither the pending table nor the
\* handler's memory, delivers nothing and leaves the loop at select!, where the
\* next frame is read and a stop returns Ok(())
C11_UndissectedDropped ==
    [][\A f \in NonTcpFrames :
          Reads(f) =>
              /\ syn_packets' = syn_packets
              /\ key_map' = key_map
              /\ received' = received
              /\ loops'[1].pc = "select"
              /\ loops'[1].res = None
              /\ loops'[1].last.out \in {"dropped", "tcp_err"}]_vars

\* a frame was dropped by dissection, a later response still gave a result to
\* the post-processors, and the stopped loop returned Ok(())
C11_Witness ==
    /\ loops[1].drops > 0
    /\ loops[1].last.class = "response_hit"
    /\ loops[1].last.out = "result"
    /\ received[post_processors] # << >>
    /\ loops[1].pc = "done"

\* C12: a post-processor that returns an error ends capture_packets with that
\* error: the post-processors after it never receive the result, those before
\* it have it, and the loop reads no further frame and delivers nothing more
C12_PostProcessorErrorEndsLoop ==
    /\ [](loops[1].pc = "failed" =>
            /\ IsSome(loops[1].res)
            /\ \A j \in 1..post_processors :
                  received[j] = IF j < loops[1].idx
                                THEN Append(received[post_processors],
                                            Unwrap(loops[1].res))
                                ELSE received[post_processors])
    /\ [][/\ (loops[1].pc = "deliver" /\ received' = received
                 /\ (loops'[1].pc # "deliver" \/ loops'[1].idx # loops[1].idx))
                => loops'[1].pc = "failed"
          /\ loops[1].pc = "failed" =>
                 /\ loops'[1] = loops[1]
                 /\ received' = received
                 /\ key_map' = key_map]_vars

\* the second post-processor failed on a result the first one has taken, with
\* frames left to read
C12_Witness ==
    /\ loops[1].pc = "failed"
    /\ loops[1].idx = 2
    /\ Len(received[1]) = 1
    /\ received[2] = << >>
    /\ loops[1].nread < MaxFrames

\* C13: a result goes to the post-processors one at a time in the order of
\* registration: a step hands it to one post-processor only, the one at idx,
\* and at that moment post-processors 1..idx-1 have taken it and none of the
\* later ones has
C13_RegistrationOrder ==
    [][received' # received =>
          /\ loops[1].pc = "deliver"
          /\ \E j \in 1..post_processors :
                /\ j = loops[1].idx
                /\ received' = [received EXCEPT
                                   ![j] = Append(@, Unwrap(loops[1].res))]
                /\ \A k \in 1..(j - 1) : received[k] = received'[j]
                /\ \A k \in (j + 1)..post_processors : received[k] = received[j]
                /\ loops'[1].idx = IF j = post_processors THEN 1 ELSE j + 1]_vars

\* the first post-processor has taken a result that the last one is about to
\* receive
C13_Witness ==
    /\ loops[1].pc = "deliver"
    /\ loops[1].idx = post_processors
    /\ post_processors > 1
    /\ received[1] = << Unwrap(loops[1].res) >>
    /\ received[post_processors] = << >>

\* C14: once stop() has been called, a capture_packets call that is running, or
\* that starts afterwards, eventually leaves its loop (the runs in which the
\* loop has read MaxFrames frames are left aside)
C14_StopEndsCapture ==
    (stop_value /\ loops[1].pc # "idle")
        ~> (\/ loops[1].pc \in {"done", "failed", "panicked"}
            \/ loops[1].nread = MaxFrames)

\* C15: after stop() the sweeper ends at its next suspension point: it wakes up
\* at most once more and makes no sweep of the pending table after that
C15_SweeperStops ==
    sweeper.after_stop <= 1

\* C16: stop() does not interrupt a frame: the loop returns Ok(()) from select!
\* only, with no frame between get_metrics and process and no result on its way
\* through the post-processors, so a frame that was being handled when stop()
\* was called has been through process and its result has reached every
\* post-processor
C16_StopBetweenFrames ==
    /\ [](loops[1].pc = "done" =>
            /\ loops[1].cur = None
            /\ loops[1].res = None
            /\ loops[1].last.out # "process"
            /\ \A j \in 1..post_processors : received[j] = received[1]
            /\ loops[1].last.out = "result" => received[post_processors] # << >>)
    /\ [][(loops[1].pc # "done" /\ loops'[1].pc = "done") =>
             /\ loops[1].pc \in {"select", "wait_stop"}
             /\ received' = received
             /\ key_map' = key_map]_vars

\* stop() was called while the second frame, a response, was between
\* get_metrics and the end of its delivery; the loop has returned Ok(()) and
\* every post-processor has the result
C16_Witness ==
    /\ loops[1].pc = "done"
    /\ loops[1].stop_in = 2
    /\ loops[1].nread = 2
    /\ loops[1].last.out = "result"
    /\ \A j \in 1..post_processors : Len(received[j]) = 1

\* C17: a read that fails (would-block on the link, no event on the tap) costs
\* one frame only: the loop is back at select! with the reader branch armed, and
\* the frames that come later are read
C17_SourceErrorSkipped ==
    [][(loops[1].pc \in {"select", "reading"} /\ ReadNone(1)) =>
          loops'[1].pc = "select"]_vars

\* C18: frames are handled one at a time in the order read_packet returns them:
\* the loop pulls a frame, its nread-th, only from select!, when the frame
\* before it has been through process and every post-processor has the result
\* it gave
C18_OneFrameAtATime ==
    [][loops'[1].nread # loops[1].nread =>
          /\ loops'[1].nread = loops[1].nread + 1
          /\ loops[1].pc \in {"select", "reading"}
          /\ loops[1].cur = None
          /\ loops[1].res = None
          /\ loops[1].last.out # "process"
          /\ \A j \in 1..post_processors : received[j] = received[1]
          /\ loops[1].last.out = "result" => received[post_processors] # << >>]_vars

\* a third frame is on its way to process after the second one gave a result
\* that every post-processor has received
C18_Witness ==
    /\ loops[1].nread = 3
    /\ loops[1].pc = "process"
    /\ loops[1].last.class = "request"
    /\ \A j \in 1..post_processors : Len(received[j]) = 1

(***************************************************************************)
(* Two capture loops, over TwoSpec.                                         *)
(***************************************************************************)
\* loop l holds a frame between get_metrics and process whose metrics carry
\* identifier id, with a latency (a response that hit) or without (a request)
Holds(l, id, with_latency) ==
    /\ loops[l].pc = "process"
    /\ \E c \in {Unwrap(loops[l].cur)} :
          /\ IsSome(c.metrics)
          /\ Unwrap(c.metrics).identifier = id
          /\ IsSome(Unwrap(c.metrics).latency) = with_latency

\* C19: with two loops on one Observer and one handler the handling of a frame
\* is atomic: when the plugin processes a response for identifier id, no
\* request frame that inserted a pending entry for id is still waiting for its
\* own call of process in the other loop
C19_FrameHandlingAtomic ==
    [][\A l \in Loops : \A id \in Ids :
          (Holds(l, id, TRUE) /\ loops'[l].pc # "process") =>
              \A m \in Loops \ {l} : ~Holds(m, id, FALSE)]_vars

(***************************************************************************)
(* The session-key cache (plugin/tlsdecrypt/cache.rs).  A line of the key   *)
(* log file is a sequence of tokens: a label, blanks, runs of hex digits,   *)
(* the line ending; a client random and a master key are runs of hex        *)
(* tokens.                                                                  *)
(***************************************************************************)
MaxLines == 3

\* LruCache::new(size)
size == 2

HexTokens == {"E2", "D2", "E1", "BF", "B9"}

ClientRandoms == {<< "E2" >>, << "D2" >>, << "E1" >>}

MasterKeys == {<< "BF" >>, << "B9" >>}

LF == << "LF" >>

Line(label, k, v, ending) == << label, " " >> \o k \o << " " >> \o v \o ending

\* the lines `CLIENT_RANDOM k v`, ended by \n
KeyLines == {Line("CLIENT_RANDOM", k, v, LF) : k \in ClientRandoms, v \in MasterKeys}

\* what else a key log holds: a comment, an empty line, the secret of another
\* label, a line ended by \r\n, a line whose end is not written yet
OtherLines ==
    { << "#", " ", "LF" >>,
      LF,
      Line("CLIENT_TRAFFIC_SECRET_0", << "E2" >>, << "BF" >>, LF),
      Line("CLIENT_RANDOM", << "D2" >>, << "B9" >>, << "CR", "LF" >>),
      Line("CLIENT_RANDOM", << "E2" >>, << "BF" >>, << >>) }

Lines == KeyLines \cup OtherLines

\* the number of tokens of `line` from position i on that are in `set`, up to
\* the first one that is not
RECURSIVE SpanLen(_, _, _)
SpanLen(line, i, set) ==
    IF i > Len(line) \/ line[i] \notin set THEN 0
    ELSE 1 + SpanLen(line, i + 1, set)

\* parse_client_random: tag("CLIENT_RANDOM"), space1, take_while1(hex digit),
\* space1, take_while1(hex digit), line_ending; None for the nom error
parse_client_random(line) ==
    IF Len(line) = 0 \/ line[1] # "CLIENT_RANDOM" THEN None
    ELSE LET s1 == SpanLen(line, 2, {" ", "TAB"})
             a  == 2 + s1
             h1 == SpanLen(line, a, HexTokens)
             b  == a + h1
             s2 == SpanLen(line, b, {" ", "TAB"})
             c  == b + s2
             h2 == SpanLen(line, c, HexTokens)
             d  == c + h2
             ending == \/ (d <= Len(line) /\ line[d] = "LF")
                       \/ (d + 1 <= Len(line) /\ line[d] = "CR"
                             /\ line[d + 1] = "LF")
         IN  IF s1 = 0 \/ h1 = 0 \/ s2 = 0 \/ h2 = 0 \/ ~ending THEN None
             ELSE Some([client_random |-> SubSeq(line, a, b - 1),
                        master_key |-> SubSeq(line, c, d - 1)])

\* parse_line with the reader at line i of f: read_line returns 0 at the end of
\* the file; a line that parse_client_random rejects gives Ok(None) as well
parse_line(f, i) ==
    IF i > Len(f) THEN None ELSE parse_client_random(f[i])

Without(c, k) == SelectSeq(c, LAMBDA e : e.k # k)

\* a lookup that leaves the order of the entries alone (LruCache::peek)
LruPeek(c, k) ==
    IF \E j \in 1..Len(c) : c[j].k = k
    THEN LET e == CHOOSE e \in {c[j] : j \in 1..Len(c)} : e.k = k
         IN  [cache |-> c, val |-> Some(e.v)]
    ELSE [cache |-> c, val |-> None]

\* LruCache::get: the entry becomes the most recently used
LruGet(c, k) ==
    IF \E j \in 1..Len(c) : c[j].k = k
    THEN LET e == CHOOSE e \in {c[j] : j \in 1..Len(c)} : e.k = k
         IN  [cache |-> Append(Without(c, k), e), val |-> Some(e.v)]
    ELSE [cache |-> c, val |-> None]

\* a put that never evicts
LruPutNoEvict(c, k, v) ==
    Append(Without(c, k), [k |-> k, v |-> v])

\* LruCache::put: replaces the entry of the key, or evicts the least recently
\* used entry of a full cache
LruPut(c, k, v) ==
    IF \E j \in 1..Len(c) : c[j].k = k
    THEN Append(Without(c, k), [k |-> k, v |-> v])
    ELSE IF Len(c) >= size
    THEN Append(Tail(c), [k |-> k, v |-> v])
    ELSE Append(c, [k |-> k, v |-> v])

\* the loop of get over the lines from i on; `put` is the client randoms put
\* into the hot cache so far, and the result tells how many lines were read
RECURSIVE Scan(_, _, _, _, _)
Scan(f, i, c, client_random, put) ==
    LET ssl_pair == parse_line(f, i)
        nread    == IF i > Len(f) THEN Len(f) ELSE i
    IN  IF ssl_pair = None
        THEN [cache |-> c, val |-> None, read |-> nread, put |-> put]
        ELSE LET p    == Unwrap(ssl_pair)
                 c2   == LruPut(c, p.client_random, p.master_key)
                 put2 == Append(put, p.client_random)
             IN  IF client_random = p.client_random
                 THEN [cache |-> c2, val |-> Some(p.master_key), read |-> i,
                       put |-> put2]
                 ELSE Scan(f, i + 1, c2, client_random, put2)

\* a get that scans the file only while the hot cache has room
get_scan_unless_full(c, f, client_random) ==
    LET hit == LruGet(c, client_random)
    IN  IF IsSome(hit.val) \/ Len(c) >= size
        THEN [cache |-> hit.cache, val |-> hit.val, read |-> 0, put |-> << >>]
        ELSE Scan(f, 1, c, client_random, << >>)

\* CachedTLSSessionKeys::get: the hot cache first, then the file from its start
get(c, f, client_random) ==
    LET hit == LruGet(c, client_random)
    IN  IF IsSome(hit.val)
        THEN [cache |-> hit.cache, val |-> hit.val, read |-> 0, put |-> << >>]
        ELSE Scan(f, 1, c, client_random, << >>)

\* a call of get
Get(client_random) ==
    /\ \E r \in {get(hot_cache, file, client_random)} :
          /\ hot_cache' = r.cache
          /\ got' = [key |-> client_random, val |-> r.val, at |-> Len(file),
                     read |-> r.read, put |-> r.put, before |-> hot_cache,
                     held |-> got.held \cup {r.put[j] : j \in 1..Len(r.put)}]
    /\ UNCHANGED file
    /\ UNCHANGED << observer_vars, rest_vars >>

\* the TLS library appends a line to the key log; nothing is appended to a file
\* whose last line has no ending yet
AppendLine(line) ==
    /\ Len(file) < MaxLines
    /\ IF file = << >> THEN TRUE
       ELSE file[Len(file)][Len(file[Len(file)])] = "LF"
    /\ file' = Append(file, line)
    /\ UNCHANGED << hot_cache, got >>
    /\ UNCHANGED << observer_vars, rest_vars >>

CacheNext ==
    \/ \E line \in Lines : AppendLine(line)
    \/ \E k \in ClientRandoms : Get(k)

CacheSpec == Init /\ [][CacheNext]_vars

\* one of the first n lines of the file is `CLIENT_RANDOM k v`
HasLine(k, v, n) ==
    \E j \in 1..n : file[j] \in {Line("CLIENT_RANDOM", k, v, LF),
                                Line("CLIENT_RANDOM", k, v, << "CR", "LF" >>)}

\* C20: get(k) returns Some(v) exactly when the file holds a line
\* `CLIENT_RANDOM k v` at the time of the call, and the v it returns is that of
\* such a line
C20_GetIffLineInFile ==
    got.key # << >> =>
        /\ IsSome(got.val) <=> \E v \in MasterKeys : HasLine(got.key, v, got.at)
        /\ IsSome(got.val) => HasLine(got.key, Unwrap(got.val), got.at)

\* the client randoms of the entries of a hot cache
HotKeys(c) == {c[j].k : j \in 1..Len(c)}

\* line j of the file parses as an entry for client random k
ParsesFor(j, k) ==
    \E p \in {parse_client_random(file[j])} :
        IsSome(p) /\ Unwrap(p).client_random = k

\* C21: a line that does not parse is skipped and does not end the scan: a get
\* that missed the hot cache returns Some when a line that parses for its key
\* is in the file, whatever lines come before it
C21_UnparseableLineSkipped ==
    (got.key # << >> /\ got.key \notin HotKeys(got.before)) =>
        ((\E j \in 1..got.at : ParsesFor(j, got.key)) => IsSome(got.val))

\* C22: whatever gets were made, the hot cache holds at most `size` entries,
\* and no client random twice
C22_HotCacheWithinCapacity ==
    /\ Len(hot_cache) <= size
    /\ \A i, j \in 1..Len(hot_cache) : hot_cache[i].k = hot_cache[j].k => i = j

\* a get has scanned a file with more entries than the hot cache can hold and
\* put them all, and the hot cache is full
C22_Witness ==
    /\ Len(hot_cache) = size
    /\ Cardinality({got.put[j] : j \in 1..Len(got.put)}) > size

\* the master key of the first line of the file that parses for client random k
FirstSecret(k) ==
    LET j == CHOOSE j \in 1..Len(file) :
                 /\ ParsesFor(j, k)
                 /\ \A h \in 1..(j - 1) : ~ParsesFor(h, k)
    IN  Unwrap(parse_client_random(file[j])).master_key

\* C23: a client random that the hot cache has held and holds no more is
\* resolved from the file: get reads the file again and returns the secret of
\* the first line for that client random
C23_EvictedKeyRescanned ==
    [][\A k \in ClientRandoms :
          (k \in got.held /\ k \notin HotKeys(hot_cache) /\ Get(k)) =>
              /\ got'.read > 0
              /\ got'.val = Some(FirstSecret(k))
              /\ k \in HotKeys(hot_cache')]_vars

\* capacity 2 and a file of three lines L1, L2, L3: the get of L3 had left
\* L2 and L3 in the hot cache, and the get of L1 that followed returned L1's
\* secret from the first line of the file
C23_Witness ==
    /\ Len(file) = 3
    /\ \A j \in 1..3 : file[j] \in KeyLines
    /\ Cardinality({file[j][3] : j \in 1..3}) = 3
    /\ got.key = << file[1][3] >>
    /\ Len(got.before) = 2
    /\ got.before[1].k = << file[2][3] >>
    /\ got.before[2].k = << file[3][3] >>
    /\ got.read = 1
    /\ got.val = Some(<< file[1][5] >>)

\* the last get found its client random in the hot cache
WasHit == got.key # << >> /\ got.key \in HotKeys(got.before)

\* C28: a get that finds its client random in the hot cache returns the cached
\* value, reads no line of the file and puts nothing; the entry becomes the most
\* recently used one, the others keep their order, and the insertion of a
\* new client random that follows into the full hot cache evicts another
\* entry
C28_HitPromotes ==
    /\ [](WasHit =>
            /\ got.read = 0
            /\ got.put = << >>
            /\ \E j \in 1..Len(got.before) :
                  /\ got.before[j].k = got.key
                  /\ got.val = Some(got.before[j].v)
                  /\ hot_cache = Append(Without(got.before, got.key),
                                        got.before[j]))
    /\ [][\A k \in ClientRandoms :
             (/\ WasHit
              /\ k \notin HotKeys(hot_cache)
              /\ Len(hot_cache) = size
              /\ Get(k)
              /\ Len(got'.put) = 1) =>
                 got.key \in HotKeys(hot_cache')]_vars

\* the least recently used entry of the full hot cache was hit and is now the
\* most recently used one
C28_Witness ==
    /\ WasHit
    /\ Len(got.before) = size
    /\ got.before[1].k = got.key
    /\ hot_cache[size].k = got.key
    /\ hot_cache[1] = got.before[size]

\* the client randoms of the lines 1..n of the file that parse, in file order
RECURSIVE ParsedUpTo(_)
ParsedUpTo(n) ==
    IF n = 0 THEN << >>
    ELSE LET p == parse_client_random(file[n])
         IN  IF IsSome(p) THEN Append(ParsedUpTo(n - 1), Unwrap(p).client_random)
             ELSE ParsedUpTo(n - 1)

\* C29: a get that misses the hot cache reads the file from its first line, in
\* order; it puts every entry that parses up to and including the first line
\* for its client random, returns that line's secret and reads no further;
\* when no line is for its client random it returns None after reading the
\* file to its end
C29_MissScansToMatchOrEnd ==
    (got.key # << >> /\ ~WasHit) =>
        IF \E j \in 1..got.at : ParsesFor(j, got.key)
        THEN \E m \in 1..got.at :
                /\ ParsesFor(m, got.key)
                /\ \A h \in 1..(m - 1) : ~ParsesFor(h, got.key)
                /\ got.read = m
                /\ got.put = ParsedUpTo(m)
                /\ got.val = Some(Unwrap(parse_client_random(file[m])).master_key)
        ELSE /\ got.val = None
             /\ got.read = got.at
             /\ got.put = ParsedUpTo(got.at)

\* C26: stop() can be called again: every call sets the flag of the channel to
\* true, the flag never goes back to false, and a call changes nothing else of
\* the Observer, neither the tables nor where a capture loop stands
C26_StopIdempotent ==
    /\ [](stop_version > 0 => stop_value)
    /\ [][/\ stop_value => stop_value'
          /\ stop_version' # stop_version =>
                /\ stop_version' = stop_version + 1
                /\ stop_value'
                /\ syn_packets' = syn_packets
                /\ key_map' = key_map
                /\ received' = received
                /\ sweeper' = sweeper
                /\ \A l \in Loops : loops'[l].pc = loops[l].pc]_vars

\* stop() was called a second time after the capture loop had seen the first
\* call and returned
C26_Witness ==
    /\ stop_version = 2
    /\ stop_value
    /\ loops[1].pc = "done"
    /\ loops[1].seen = 1

(***************************************************************************)
(* The sweeper and the pending table, over Spec.                            *)
(***************************************************************************)
\* C27: a sweep leaves exactly the entries younger than ttl, with their
\* timestamps, and an entry younger than ttl leaves the pending table only when
\* a response-direction frame with its key as sequence number is handled
C27_YoungEntryNotSwept ==
    [][/\ sweeper' # sweeper =>
             /\ DOMAIN syn_packets' =
                    {k \in DOMAIN syn_packets : now - syn_packets[k] < ttl}
             /\ \A k \in DOMAIN syn_packets' : syn_packets'[k] = syn_packets[k]
       /\ \A k \in DOMAIN syn_packets :
             (k \notin DOMAIN syn_packets' /\ now - syn_packets[k] < ttl) =>
                 /\ loops'[1].nread = loops[1].nread + 1
                 /\ loops'[1].last.class = "response_hit"
                 /\ Unwrap(loops'[1].last.met).identifier = k]_vars

\* the last sweep found an entry as old as ttl and a younger one: it removed
\* the first and left the second
C27_Witness ==
    /\ sweeper.evicted # {}
    /\ sweeper.kept # {}

(***************************************************************************)
(* The Prometheus post-processor (post_processor/prometheus/mod.rs).  A     *)
(* CounterVec or HistogramVec is a map from label value to child; a child   *)
(* exists once with_label_values has named it.                              *)
(***************************************************************************)
MaxResults == 3

Labels == {foo, bar}

\* the ProcessedResult::Prometheus values given to post_process
PrometheusResults ==
    [label : Labels, is_error : BOOLEAN, latency : 0..1]

\* Counter::inc on the child of `label`, created at 0 when it is not there
Inc(vec, label) ==
    MapInsert(vec, label, IF label \in DOMAIN vec THEN vec[label] + 1 ELSE 1)

\* Histogram::observe on the child of `label`
Observe(vec, label, x) ==
    MapInsert(vec, label,
              IF label \in DOMAIN vec THEN Append(vec[label], x) ELSE << x >>)

\* post_process that counts every result as an error
post_process_all_errors(p, res) ==
    [p EXCEPT !.requests = Inc(@, res.label),
              !.latency = Observe(@, res.label, res.latency),
              !.errors = Inc(@, res.label)]

\* PrometheusPostProcessor::post_process
post_process(p, res) ==
    [p EXCEPT !.requests = Inc(@, res.label),
              !.latency = Observe(@, res.label, res.latency),
              !.errors = IF res.is_error THEN Inc(@, res.label) ELSE @]

\* a call of post_process
PostProcess(res) ==
    /\ Len(prom.log) < MaxResults
    /\ prom' = [post_process(prom, res) EXCEPT !.log = Append(prom.log, res)]
    /\ UNCHANGED << observer_vars, cache_vars, tap, parsed >>

PrometheusNext == \E res \in PrometheusResults : PostProcess(res)

PrometheusSpec == Init /\ [][PrometheusNext]_vars

\* the value a counter family exports for a label
CounterValue(vec, label) == IF label \in DOMAIN vec THEN vec[label] ELSE 0

\* the observations a histogram family holds for a label
Observations(vec, label) == IF label \in DOMAIN vec THEN vec[label] ELSE << >>

\* the results given so far that carry the label
WithLabel(label) == SelectSeq(prom.log, LAMBDA r : r.label = label)

\* C24: for every label requests_total is the number of results received with
\* the label, errors_total the number of those with the error bit set, the
\* histogram holds their latencies, one observation per result, and
\* errors_total is at most requests_total
C24_CountersMatchResults ==
    \A label \in Labels :
        /\ CounterValue(prom.requests, label) = Len(WithLabel(label))
        /\ CounterValue(prom.errors, label) =
               Len(SelectSeq(WithLabel(label), LAMBDA r : r.is_error))
        /\ Observations(prom.latency, label) =
               [j \in 1..Len(WithLabel(label)) |-> WithLabel(label)[j].latency]
        /\ CounterValue(prom.errors, label) <= CounterValue(prom.requests, label)

\* three results of one label, one of them an error, and none of the other
\* label
C24_Witness ==
    /\ CounterValue(prom.requests, foo) = 3
    /\ CounterValue(prom.errors, foo) = 1
    /\ bar \notin DOMAIN prom.requests

(***************************************************************************)
(* The TLS tap (probes/ssl_write_probe.rs, tls_reader.rs).  An event is     *)
(* << cpu, n >>, the n-th SSL_write seen on that CPU.  tap.perf[c] is the   *)
(* perf ring of CPU c, tap.batch[c] what the consumer of c has read and not *)
(* yet sent, tap.chan the channel, tap.consumed[c] every event the consumer *)
(* of c has read, tap.source what read_packet has returned and tap.lost     *)
(* what read_packet has taken from a ring and not returned.                 *)
(***************************************************************************)
MaxEvents == 2

\* mpsc::channel(100), scaled down so that the ring traffic of MaxEvents
\* events per CPU fills it
ChannelCapacity == 2

\* the buffers a consumer hands to read_events
Buffers == 10

Events == Cpus \X (1..MaxEvents)

Min(a, b) == IF a <= b THEN a ELSE b

IsPrefix(a, b) == Len(a) <= Len(b) /\ a = SubSeq(b, 1, Len(a))

ToSet(sq) == {sq[j] : j \in 1..Len(sq)}

\* the uprobe on SSL_write writes an event into the ring of the CPU it ran on
Emit(c) ==
    /\ tap.made[c] < MaxEvents
    /\ tap' = [tap EXCEPT !.made[c] = @ + 1,
                          !.perf[c] = Append(@, << c, tap.made[c] + 1 >>)]
    /\ UNCHANGED << observer_vars, cache_vars, prom, parsed >>

\* SslWriteProbe::stream_for_events: makes the channel and spawns one
\* consumer per CPU
StreamForEvents ==
    /\ ~tap.spawned
    /\ tap' = [tap EXCEPT !.spawned = TRUE]
    /\ UNCHANGED << observer_vars, cache_vars, prom, parsed >>

\* the consumer of CPU c: perf_map.read_events(&mut buffers).await
ConsumerRead(c) ==
    /\ tap.spawned
    /\ tap.batch[c] = << >>
    /\ tap.perf[c] # << >>
    /\ \E n \in 1..Min(Len(tap.perf[c]), Buffers) :
          tap' = [tap EXCEPT !.batch[c] = SubSeq(tap.perf[c], 1, n),
                             !.consumed[c] = @ \o SubSeq(tap.perf[c], 1, n),
                             !.perf[c] = Drop(@, n)]
    /\ UNCHANGED << observer_vars, cache_vars, prom, parsed >>

\* the consumer of CPU c: tx.send(Ok(buf.to_vec())).await, which waits while
\* the channel is full
ConsumerSend(c) ==
    /\ tap.batch[c] # << >>
    /\ Len(tap.chan) < ChannelCapacity
    /\ tap' = [tap EXCEPT !.chan = Append(@, Head(tap.batch[c])),
                          !.batch[c] = Tail(@)]
    /\ UNCHANGED << observer_vars, cache_vars, prom, parsed >>

\* the first CPU, in online_cpus order, at or after c whose ring holds
\* something, or -1
FirstReadable(c) ==
    IF \E d \in Cpus : d >= c /\ tap.perf[d] # << >>
    THEN CHOOSE d \in Cpus :
             /\ d >= c /\ tap.perf[d] # << >>
             /\ \A d2 \in Cpus : (d2 >= c /\ tap.perf[d2] # << >>) => d <= d2
    ELSE -1

\* TlsReader::read_packet: reads the rings CPU by CPU and returns data[0] of
\* the first batch that is not empty
ReadPacket ==
    /\ FirstReadable(0) # -1
    /\ \E c \in {FirstReadable(0)} :
          \E n \in 1..Len(tap.perf[c]) :
              tap' = [tap EXCEPT !.source = Append(@, tap.perf[c][1]),
                                 !.lost = @ \cup ToSet(SubSeq(tap.perf[c], 2, n)),
                                 !.perf[c] = Drop(@, n)]
    /\ UNCHANGED << observer_vars, cache_vars, prom, parsed >>

TapNext ==
    \/ \E c \in Cpus : Emit(c)
    \/ StreamForEvents
    \/ \E c \in Cpus : ConsumerRead(c)
    \/ \E c \in Cpus : ConsumerSend(c)
    \/ ReadPacket

TapSpec == Init /\ [][TapNext]_vars

\* the consumers are spawned tasks and read_packet is called in a loop by
\* capture_packets: each runs whenever it can
FairTapSpec ==
    /\ TapSpec
    /\ \A c \in Cpus : WF_vars(ConsumerRead(c)) /\ WF_vars(ConsumerSend(c))
    /\ WF_vars(ReadPacket)

\* C25: the channel never holds more than its capacity, every event a
\* consumer has read is eventually received by the frame source, and the
\* events of one CPU that the frame source receives from the consumers come
\* in the order the consumer of that CPU read them
C25_ConsumedEventsReachSource ==
    /\ [](Len(tap.chan) <= ChannelCapacity)
    /\ [](\A c \in Cpus :
             IsPrefix(SelectSeq(tap.source,
                                LAMBDA e : e[1] = c /\ e \in ToSet(tap.consumed[c])),
                      tap.consumed[c]))
    /\ \A e \in Events :
           (e \in ToSet(tap.consumed[e[1]])) ~> (e \in ToSet(tap.source))

(***************************************************************************)
(* parse_array over arrays of items of the implemented subset               *)
(* (plugin/redis/resp_parser.rs).  An item is described by its kind and its *)
(* text; Encode writes its bytes and parse_resp reads them back.            *)
(***************************************************************************)
MaxItems == 4

Items ==
    {[kind |-> "bulk", text |-> foo], [kind |-> "bulk", text |-> << >>],
     [kind |-> "integer", text |-> <<"4", "2">>],
     [kind |-> "simple", text |-> <<"O", "K">>],
     [kind |-> "error", text |-> <<"E", "R", "R">>],
     [kind |-> "array", text |-> bar]}

\* the bytes of an item; an item of kind array is *3 GET foo <text>
Encode(item) ==
    CASE item.kind = "bulk" -> Bulk(item.text)
      [] item.kind = "integer" -> <<":">> \o item.text \o CRLF
      [] item.kind = "simple" -> <<"+">> \o item.text \o CRLF
      [] item.kind = "error" -> <<"-">> \o item.text \o CRLF
      [] item.kind = "array" -> Array(<< Bulk(GET), Bulk(foo), Bulk(item.text) >>)

\* the arrays given to the parser: the empty one, and the one last parsed
\* with one more item
ItemSeqs ==
    {<< >>} \cup {Append(parsed.items, item) :
                     item \in IF Len(parsed.items) < MaxItems THEN Items ELSE {}}

\* parse_resp on the bytes of an array of the items
ParseArray(items) ==
    /\ parsed' = [items |-> items,
                  out |-> << parse_resp(Array([j \in 1..Len(items) |->
                                                  Encode(items[j])])) >>]
    /\ UNCHANGED << observer_vars, cache_vars, prom, tap >>

ParseNext == \E items \in ItemSeqs : ParseArray(items)

ParseSpec == Init /\ [][ParseNext]_vars

\* the `value` slot of the view of one item: the text of a bulk string that
\* is not empty and of an integer, the third item of an array; a simple
\* string and an error carry their text in the command slot and have none
ItemValue(item) ==
    IF item.kind \in {"bulk", "integer", "array"} /\ item.text # << >>
    THEN Some(item.text)
    ELSE None

\* the value of the i-th of the items, None when there are fewer
ValueOfItem(items, i) ==
    IF i <= Len(items) THEN ItemValue(items[i]) ELSE None

\* C30: parsing an array of n items consumes all n items and yields the view
\* (command, key, value) = (value of item 1, value of item 2, value of item
\* 3), with None in the slot of a missing item and of an empty bulk string,
\* whatever the items after the third are
C30_ArrayViewIsFirstThreeValues ==
    parsed.out # << >> =>
        parsed.out[1] = POk(<< >>, RespValue(ValueOfItem(parsed.items, 1),
                                             ValueOfItem(parsed.items, 2),
                                             ValueOfItem(parsed.items, 3)))

\* four items: the second an empty bulk string, the fourth one with a value
\* that the view does not show
C30_Witness ==
    /\ parsed.out # << >>
    /\ Len(parsed.items) = 4
    /\ parsed.items[2] = [kind |-> "bulk", text |-> << >>]
    /\ ItemValue(parsed.items[4]) = Some(foo)
    /\ parsed.out[1].st = "ok"
    /\ parsed.out[1].val = RespValue(Some(<<"4", "2">>), None, Some(bar))

(***************************************************************************)
(* The plugin's memory against the pending table, over Spec.                *)
(***************************************************************************)
\* C31: between frames every identifier the plugin remembers a payload for
\* has an entry in the pending table: an entry removed by a response or by
\* the sweeper leaves no payload behind
C31_MemoryWithinPending ==
    loops[1].pc \in {"idle", "select"} =>
        DOMAIN key_map \subseteq DOMAIN syn_packets

(***************************************************************************)
(* Requests without a key slot.                                             *)
(***************************************************************************)
\* the frames of the runs with PING: the requests PING, in both forms, and GET
\* foo, and the responses with a bulk string, an error and no payload
KeylessFrames ==
    {Frame("tcp", ClientPort, port, TRUE, ClientSeq, 500, p) :
        p \in KeylessPayloads \cup {ReqGetFoo}}
        \cup {f \in ResponseFrames :
                 f.seq = 500 /\ f.payload \in {RespBulkBar, RespError, << >>}}

\* One capture loop with its sweeper, on a connection that carries PING.
KeylessNext ==
    \/ Sweep
    \/ Tick
    \/ CapturePackets(1)
    \/ \E f \in KeylessFrames : HandleFrame(1, f)
    \/ Deliver(1, TRUE)

KeylessSpec == Init /\ [][KeylessNext]_vars

\* C32: when the request remembered for an identifier has no key slot,
\* handling the matching response, whose payload the parser reads without
\* panicking, does not panic: the capture loop is at select! or delivering a
\* result afterwards
C32_KeylessRequestNotFatal ==
    [][\A f \in KeylessFrames :
          (/\ f.src = port
           /\ f.seq \in DOMAIN syn_packets
           /\ f.seq \in DOMAIN key_map
           /\ key_map[f.seq].key = None
           /\ RespOf[f.payload].st # "panic"
           /\ Handles(f))
          => loops'[1].pc \in {"select", "deliver"}]_vars

(***************************************************************************)
(* Requests that repeat an acknowledgement number, over Spec.               *)
(***************************************************************************)
\* C33: every request-direction ACK frame, with or without a payload, sets
\* the pending entry of its acknowledgement number to its own timestamp,
\* whether or not there was one; nothing else changes the timestamp of an
\* entry; and the latency of a response is the time since the timestamp the
\* entry then holds, which is that of the last such frame
C33_LatencyFromLastRequest ==
    [][/\ (/\ loops'[1].nread = loops[1].nread + 1
           /\ loops'[1].last.class = "request")
          => \E k \in {Unwrap(loops'[1].last.met).identifier} :
                /\ k \in DOMAIN syn_packets'
                /\ syn_packets'[k] = now
                /\ loops'[1].rewritten =
                       IF k \notin DOMAIN syn_packets
                       THEN loops[1].rewritten \ {k}
                       ELSE IF syn_packets[k] # now
                       THEN loops[1].rewritten \cup {k}
                       ELSE loops[1].rewritten
       /\ \A k \in DOMAIN syn_packets \cap DOMAIN syn_packets' :
             syn_packets'[k] # syn_packets[k] =>
                 /\ loops'[1].nread = loops[1].nread + 1
                 /\ loops'[1].last.class = "request"
                 /\ loops'[1].last.met = Some(Metrics(k, None))
       /\ (/\ loops'[1].nread = loops[1].nread + 1
           /\ loops'[1].last.class = "response_hit")
          => \E m \in {Unwrap(loops'[1].last.met)} :
                /\ m.identifier \in DOMAIN syn_packets
                /\ m.latency = Some(now - syn_packets[m.identifier])
                /\ loops'[1].pc = "deliver" =>
                       Unwrap(loops'[1].res).latency =
                           as_millis(now - syn_packets[m.identifier])]_vars

\* a result is on its way to the post-processors for a response handled at
\* time 2 whose entry a second request, at time 1, had given another
\* timestamp than the first one, of time 0: the latency is the one tick since
\* the second
C33_Witness ==
    /\ loops[1].pc = "deliver"
    /\ loops[1].last.class = "response_hit"
    /\ 500 \in loops[1].rewritten
    /\ now = 2
    /\ loops[1].last.met = Some(Metrics(500, Some(1)))
    /\ Unwrap(loops[1].res).latency = as_millis(1)

(***************************************************************************)
(* Results against requests, over Spec.                                     *)
(***************************************************************************)
\* the results handle_packet has returned to the capture loop so far: those
\* the first post-processor has been given, and the one on its way to it
EmittedResults ==
    Len(received[1]) + IF loops[1].pc = "deliver" /\ loops[1].idx = 1 THEN 1 ELSE 0

\* C34: a result is emitted only by the handling of a response-direction
\* frame that removes a pending entry, at most one entry enters the pending
\* table with a request-direction ACK frame and none otherwise, and so the
\* results emitted and the entries still pending are together no more than
\* the request-direction ACK frames processed
C34_ResultsWithinRequests ==
    /\ [](EmittedResults + Cardinality(DOMAIN syn_packets) <= loops[1].requests)
    /\ [][(loops'[1].pc = "deliver" /\ loops[1].pc # "deliver") =>
              /\ loops'[1].last.class = "response_hit"
              /\ \E k \in DOMAIN syn_packets :
                    /\ loops'[1].last.met # None
                    /\ Unwrap(loops'[1].last.met).identifier = k
                    /\ DOMAIN syn_packets' = DOMAIN syn_packets \ {k}]_vars
    /\ [][DOMAIN syn_packets' \ DOMAIN syn_packets # {} =>
              /\ loops'[1].requests = loops[1].requests + 1
              /\ Cardinality(DOMAIN syn_packets') =
                     Cardinality(DOMAIN syn_packets) + 1]_vars

\* two request-direction ACK frames with one acknowledgement number and the
\* response have been handled: one result, and nothing pending
C34_Witness ==
    /\ loops[1].requests = 2
    /\ 500 \in loops[1].rewritten
    /\ EmittedResults = 1
    /\ loops[1].last.class = "response_hit"
    /\ syn_packets = EmptyMap

(***************************************************************************)
(* The hot cache against the file, over CacheSpec.                          *)
(***************************************************************************)
\* C35: a get that finds its client random in the hot cache returns what a
\* scan of the file would return at that moment, the secret of the first line
\* for that client random, whatever lines the file holds and whatever gets
\* came before
C35_HitEqualsRescan ==
    [][\A k \in ClientRandoms :
          (k \in HotKeys(hot_cache) /\ Get(k)) =>
              /\ got'.val = Scan(file, 1, hot_cache, k, << >>).val
              /\ got'.val = Some(FirstSecret(k))]_vars

====
